---- MODULE Spec2Model ----
(***************************************************************************)
(* Model of the EmbeddedSignals connection registry and dispatch engine    *)
(* (src/src/signalObject.hpp, src/src/connection.hpp) and of the teardown  *)
(* of an object (src/src/baseObject.hpp).                                  *)
(*                                                                         *)
(* A Connection object is a heap cell with four identities; every          *)
(* argument signature (ParamPack) has its own static vector of pointers to *)
(* Connection objects.  Pointers are modelled by allocation numbers        *)
(* 1, 2, ... (0 is the null pointer); an object identity or a method       *)
(* pointer is a natural number (0 is null).                                *)
(*                                                                         *)
(* A std::vector is modelled by its storage: `buf` holds the slots written *)
(* so far in the current allocation, `size` the number of elements and     *)
(* `cap` the capacity.  Slots at positions > size keep the pointer value   *)
(* last written there: erase() of pointers moves the tail down and does    *)
(* not clear the slot it vacates.                                          *)
(*                                                                         *)
(* Where the C++ has undefined behaviour the model takes a nondeterministic*)
(* choice over what builds produce:                                        *)
(*   - a read of a freed Connection sees its old fields (allocator leaves  *)
(*     freed memory alone), sees clobbered fields (no identity matches),   *)
(*     sees a Connection allocated later at the same address, or the run   *)
(*     stops (fault);                                                      *)
(*   - a second delete of the same Connection is ignored or is a fault;    *)
(*   - vector::erase at or past end() moves nothing and decrements the end *)
(*     pointer, or is a fault;                                             *)
(*   - going on with the range-for after erase() uses the invalidated      *)
(*     iterators as the raw pointers they are, or is a fault (checked      *)
(*     iterators);                                                         *)
(*   - a read of a slot of a freed vector buffer sees the old pointer, a   *)
(*     null pointer, or is a fault.                                        *)
(* `fault` is the abnormal end of the run: no operation follows it.        *)
(***************************************************************************)
EXTENDS Naturals, Sequences, FiniteSets

\* Total number of Connection objects ever allocated in a run.
MaxConn == 3

\* The argument signatures (channels): 1 stands for (int), 2 for (int, int).
Channels == {1, 2}

Tuple(s, r, e, h) == [sender |-> s, receiver |-> r, signal |-> e, slot |-> h]

\* The tuple the scenarios of the specification use, and its four neighbours,
\* each differing from it in exactly one identity.
BaseTuple == Tuple(1, 1, 1, 1)

Tuples == {BaseTuple, Tuple(2, 1, 1, 1), Tuple(1, 2, 1, 1),
           Tuple(1, 1, 2, 1), Tuple(1, 1, 1, 2)}

\* The tuples connected and disconnected on each channel.
TuplesOf(c) == IF c = 1 THEN Tuples ELSE {BaseTuple}

\* The senders, signals and argument values the emissions on each channel use.
SendersOf(c) == {1, 2}

SignalsOf(c) == IF c = 1 THEN {1, 2} ELSE {1}

ArgsOf(c) == IF c = 1 THEN {7, 42} ELSE {<<7, 42>>}

\* The objects that take part as senders and receivers: their addresses are
\* the sender and receiver identities of the tuples.
Objects == {1, 2}

VARIABLES
    heap,         \* Connection objects by allocation number: channel + 4 identities
    alive,        \* allocation numbers not yet deleted
    connections,  \* _connections<ParamPack...>: channel -> vector storage
    fault,        \* TRUE once the run has ended abnormally
    log,          \* what the last call did, in order: the fireSlot calls of an
                  \* emission, the reads of *iterator of a disconnect
    last,         \* the last call made by the application, with the channel before it
    stack,        \* emissions in progress (innermost last), for re-entrant handlers
    calls,        \* the connect calls made so far: <<channel, tuple>>, in order
    objects       \* the life of each object: "alive", "released" or "destroyed"

vars == <<heap, alive, connections, fault, log, last, stack, calls, objects>>

----------------------------------------------------------------------------
\* Connection: the identity predicates (connection.hpp)

isSender(conn, sender) == sender = conn.sender

isReceiver(conn, receiver) == receiver = conn.receiver

isSignal(conn, signal) == signal = conn.signal

isSlot(conn, slot) == slot = conn.slot

\* The fields of a Connection as a tuple of four identities.
TupleOf(conn) == Tuple(conn.sender, conn.receiver, conn.signal, conn.slot)

\* new Connection(sender, receiver, signal, slot) for signature c.
NewConnection(c, t) ==
    [ch |-> c, sender |-> t.sender, receiver |-> t.receiver,
     signal |-> t.signal, slot |-> t.slot]

\* Mutant of MatchesAll: the slot is not compared.
MatchesAllButSlot(conn, t) ==
    /\ isSender(conn, t.sender)
    /\ isReceiver(conn, t.receiver)
    /\ isSignal(conn, t.signal)

\* The condition of the if-statement in disconnect.
MatchesAll(conn, t) ==
    /\ isSender(conn, t.sender)
    /\ isReceiver(conn, t.receiver)
    /\ isSignal(conn, t.signal)
    /\ isSlot(conn, t.slot)

\* Mutant of MatchesEmit: the signal is not compared.
MatchesSenderOnly(sender, p, conn, signal) ==
    /\ sender # 0
    /\ p # 0
    /\ isSender(conn, sender)

\* Mutant of MatchesEmit: the sender argument is not tested for null.
MatchesEmitUnchecked(sender, p, conn, signal) ==
    /\ p # 0
    /\ isSender(conn, sender)
    /\ isSignal(conn, signal)

\* The condition of the if-statement in fireAllSlots (p is the pointer read).
MatchesEmit(sender, p, conn, signal) ==
    /\ sender # 0
    /\ p # 0
    /\ isSender(conn, sender)
    /\ isSignal(conn, signal)

\* Mutant of fireSlot: the handler is called without the null checks.
fireSlotUnchecked(p, conn, args) ==
    [id |-> p, receiver |-> conn.receiver, slot |-> conn.slot, args |-> args,
     called |-> TRUE]

\* Connection::fireSlot: the handler runs only with receiver and slot non-null.
fireSlot(p, conn, args) ==
    [id |-> p, receiver |-> conn.receiver, slot |-> conn.slot, args |-> args,
     called |-> (conn.receiver # 0 /\ conn.slot # 0)]

----------------------------------------------------------------------------
\* std::vector<Connection*>

EmptyVector == [buf |-> <<>>, size |-> 0, cap |-> 0]

\* The elements of the vector, begin() to end().
Elements(v) == SubSeq(v.buf, 1, v.size)

\* push_back reallocates when the vector is full (capacity doubles); the new
\* buffer holds the elements only.
Reallocates(v) == v.size = v.cap

\* Mutant of push_back: the new element goes to the front.
push_front(v, p) ==
    [buf |-> <<p>> \o Elements(v), size |-> v.size + 1,
     cap |-> IF Reallocates(v) THEN (IF v.cap = 0 THEN 1 ELSE 2 * v.cap) ELSE v.cap]

push_back(v, p) ==
    IF Reallocates(v)
    THEN [buf |-> Append(Elements(v), p), size |-> v.size + 1,
          cap |-> IF v.cap = 0 THEN 1 ELSE 2 * v.cap]
    ELSE [v EXCEPT !.buf = IF v.size < Len(v.buf)
                           THEN [v.buf EXCEPT ![v.size + 1] = p]
                           ELSE Append(v.buf, p),
                   !.size = v.size + 1]

\* Mutant of EraseInside: the pointer is left in the vector.
EraseKeeps(v, i) == v

\* erase(begin() + i) with i < size: the elements after position i move down
\* by one, the end pointer is decremented; the vacated last slot keeps its
\* value.
EraseInside(v, i) ==
    [v EXCEPT !.buf = [j \in 1..Len(v.buf) |->
                          IF j > i /\ j < v.size THEN v.buf[j + 1] ELSE v.buf[j]],
              !.size = v.size - 1]

\* erase(begin() + i) with i >= size, where a build goes on: nothing is
\* moved (the range to move is empty or negative), the end pointer is
\* decremented.
EraseOutside(v, i) == [v EXCEPT !.size = v.size - 1]

----------------------------------------------------------------------------
\* SignalObject::disconnect (signalObject.hpp 70-85)

\* The state the loop of disconnect works on: the vector, the live
\* allocations, whether the run has ended abnormally, and the reads of
\* *iterator made so far.
ScanState(v, al) == [v |-> v, alive |-> al, fault |-> FALSE, seen |-> <<>>]

\* The read of *iterator at iteration i: the pointer in slot i of the storage,
\* with the position and the size of the vector at that moment.
Examine(st, i) ==
    [st EXCEPT !.seen = Append(@, [id |-> st.v.buf[i + 1], pos |-> i,
                                   size |-> st.v.size])]

Faulted(st) == [st EXCEPT !.fault = TRUE]

\* The results the four comparisons can give for the pointer p: decided by
\* the fields of a live Connection; for a deleted one the old fields or
\* clobbered ones, which match nothing.
ScanMatches(p, st, t, hp) ==
    IF p \in st.alive THEN {MatchesAll(hp[p], t)} ELSE {MatchesAll(hp[p], t), FALSE}

\* delete connection: a second delete of the same object is ignored or a fault.
DeleteOutcomes(st, p) ==
    IF p \in st.alive THEN {[st EXCEPT !.alive = st.alive \ {p}]}
    ELSE {st, Faulted(st)}

\* _connections.erase(_connections.begin() + iterator)
EraseOutcomes(st, i) ==
    IF st.fault THEN {st}
    ELSE IF i < st.v.size THEN {[st EXCEPT !.v = EraseInside(st.v, i)]}
    ELSE {[st EXCEPT !.v = EraseOutside(st.v, i)], Faulted(st)}

\* The range-for of disconnect from iteration i on (i is `iterator`, n the
\* size of the vector when the loop began: the end iterator is computed once).
\* The pointer read at iteration i is slot i of the storage, whatever the
\* vector's size has become.  The result is the set of possible outcomes.
RECURSIVE disconnectLoop(_, _, _, _, _)
disconnectLoop(st, i, n, t, hp) ==
    IF st.fault \/ i >= n THEN {st}
    ELSE LET p == st.v.buf[i + 1]
             read == Examine(st, i)
             next(s2) == disconnectLoop(s2, i + 1, n, t, hp)
             erased == UNION {EraseOutcomes(d, i) : d \in DeleteOutcomes(read, p)}
             \* after an erase the loop goes on with invalidated iterators
             onMatch == UNION {next(e) \cup {Faulted(e)} : e \in erased}
         IN  (IF p \in st.alive THEN {} ELSE {Faulted(read)})
             \cup UNION {IF m THEN onMatch ELSE next(read) :
                             m \in ScanMatches(p, st, t, hp)}

\* All outcomes of disconnect(sender, receiver, signal, slot) on the vector v.
disconnect(v, al, t, hp) == disconnectLoop(ScanState(v, al), 0, v.size, t, hp)

----------------------------------------------------------------------------
\* SignalObject::fireAllSlots with handlers that only run (signalObject.hpp 105-115)

RECURSIVE fireLoop(_, _, _, _, _, _)
fireLoop(v, hp, sender, signal, args, i) ==
    IF i >= v.size THEN <<>>
    ELSE LET p == v.buf[i + 1]
         IN  (IF MatchesEmit(sender, p, hp[p], signal)
              THEN <<fireSlot(p, hp[p], args)>> ELSE <<>>)
             \o fireLoop(v, hp, sender, signal, args, i + 1)

fireAllSlots(v, hp, sender, signal, args) == fireLoop(v, hp, sender, signal, args, 0)

----------------------------------------------------------------------------
\* The calls of the application

\* The record of a call: the operation, its channel and arguments, the
\* elements of that channel and the number of Connections allocated when the
\* call was made, and the operations handlers have called during it.
Call(op, c, t, a) ==
    [op |-> op, c |-> c, t |-> t, args |-> a, pre |-> Elements(connections[c]),
     born |-> Len(heap), hops |-> {}]

NoCall ==
    [op |-> "none", c |-> 1, t |-> Tuple(0, 0, 0, 0), args |-> 0, pre |-> <<>>,
     born |-> 0, hops |-> {}]

Init ==
    /\ heap = <<>>
    /\ alive = {}
    /\ connections = [c \in Channels |-> EmptyVector]
    /\ fault = FALSE
    /\ log = <<>>
    /\ last = NoCall
    /\ stack = <<>>
    /\ calls = <<>>
    /\ objects = [o \in Objects |-> "alive"]

\* The abnormal end of the run inside the call `call`: the process and its
\* memory are gone, only the call that ended it is kept.
Crash(call) ==
    /\ fault' = TRUE
    /\ heap' = <<>>
    /\ alive' = {}
    /\ connections' = [c \in Channels |-> EmptyVector]
    /\ log' = <<>>
    /\ stack' = <<>>
    /\ calls' = <<>>
    /\ last' = [call EXCEPT !.pre = <<>>, !.born = 0]
    /\ UNCHANGED objects

\* The body of connect: a Connection is allocated and its pointer appended
\* to the vector of the channel c.
connect(c, t) ==
    /\ Len(heap) < MaxConn
    /\ heap' = Append(heap, NewConnection(c, t))
    /\ alive' = alive \cup {Len(heap) + 1}
    /\ connections' = [connections EXCEPT ![c] = push_back(@, Len(heap) + 1)]

\* Mutant of Connect: a tuple the channel already holds is not added again.
ConnectOnce(c, t) ==
    /\ ~fault
    /\ stack = <<>>
    /\ IF \E k \in 1..connections[c].size : TupleOf(heap[connections[c].buf[k]]) = t
       THEN UNCHANGED <<heap, alive, connections, objects>>
       ELSE connect(c, t)
    /\ log' = <<>>
    /\ last' = Call("connect", c, t, 0)
    /\ calls' = Append(calls, <<c, t>>)
    /\ UNCHANGED <<fault, stack, objects>>

\* Mutant of Connect: one vector serves every signature.
ConnectShared(c, t) ==
    /\ ~fault
    /\ stack = <<>>
    /\ connect(1, t)
    /\ log' = <<>>
    /\ last' = Call("connect", c, t, 0)
    /\ calls' = Append(calls, <<c, t>>)
    /\ UNCHANGED <<fault, stack, objects>>

\* connect(sender, receiver, signal, slot) on the channel c.
Connect(c, t) ==
    /\ ~fault
    /\ stack = <<>>
    /\ connect(c, t)
    /\ log' = <<>>
    /\ last' = Call("connect", c, t, 0)
    /\ calls' = Append(calls, <<c, t>>)
    /\ UNCHANGED <<fault, stack, objects>>

\* disconnect(sender, receiver, signal, slot) on the channel c.
Disconnect(c, t) ==
    /\ ~fault
    /\ stack = <<>>
    /\ \E out \in disconnect(connections[c], alive, t, heap) :
          IF out.fault
          THEN Crash(Call("disconnect", c, t, 0))
          ELSE /\ alive' = out.alive
               /\ connections' = [connections EXCEPT ![c] = out.v]
               /\ log' = out.seen
               /\ last' = Call("disconnect", c, t, 0)
               /\ UNCHANGED <<heap, fault, stack, calls, objects>>

\* Mutant of Emit: a record is taken out of the channel when it has been
\* called (one-shot bindings).
EmitOnce(c, s, e, a) ==
    /\ ~fault
    /\ stack = <<>>
    /\ log' = fireAllSlots(connections[c], heap, s, e, a)
    /\ last' = Call("emit", c, Tuple(s, 0, e, 0), a)
    /\ connections' =
          [connections EXCEPT ![c] =
              LET kept == SelectSeq(Elements(@),
                                    LAMBDA p : ~MatchesEmit(s, p, heap[p], e))
              IN  [@ EXCEPT !.buf = kept, !.size = Len(kept)]]
    /\ UNCHANGED <<heap, alive, fault, stack, calls, objects>>

\* fireAllSlots(sender, signal, a) on the channel c, the handlers only running.
Emit(c, s, e, a) ==
    /\ ~fault
    /\ stack = <<>>
    /\ log' = fireAllSlots(connections[c], heap, s, e, a)
    /\ last' = Call("emit", c, Tuple(s, 0, e, 0), a)
    /\ UNCHANGED <<heap, alive, connections, fault, stack, calls, objects>>

Next ==
    \/ \E c \in Channels : \E t \in TuplesOf(c) : Connect(c, t)
    \/ \E c \in Channels : \E t \in TuplesOf(c) : Disconnect(c, t)
    \/ \E c \in Channels : \E s \in SendersOf(c) : \E e \in SignalsOf(c) :
          \E a \in ArgsOf(c) : Emit(c, s, e, a)

Spec == Init /\ [][Next]_vars

----------------------------------------------------------------------------
\* The runs with null identities: connect stores any four pointers, and
\* fireAllSlots can be called with a null sender.

\* The tuples of each channel: on channel 1 the base tuple and the tuples with
\* a null sender, a null receiver and a null slot.
TuplesZ(c) ==
    IF c = 1
    THEN {BaseTuple, Tuple(0, 1, 1, 1), Tuple(1, 0, 1, 1), Tuple(1, 1, 1, 0)}
    ELSE {BaseTuple}

SendersZ == {0, 1}

ArgsZ(c) == IF c = 1 THEN 7 ELSE <<7, 42>>

NextZ ==
    \/ \E c \in Channels : \E t \in TuplesZ(c) : Connect(c, t)
    \/ \E c \in Channels : \E t \in TuplesZ(c) : Disconnect(c, t)
    \/ \E c \in Channels : \E s \in SendersZ : Emit(c, s, 1, ArgsZ(c))

SpecZ == Init /\ [][NextZ]_vars

----------------------------------------------------------------------------
\* fireAllSlots step by step, with handlers that call connect and disconnect
\* (signalObject.hpp 105-115).  The range-for computes begin() and end() once:
\* a walk is the channel, the arguments, the position i and the end n.  When
\* push_back reallocates the vector the walk's iterators point into the freed
\* buffer, whose contents at that moment are kept in `old`.

\* The channel and inputs of the runs with re-entrant handlers.
ChannelsR == {1}

TuplesR == {BaseTuple, Tuple(1, 2, 1, 1), Tuple(1, 1, 2, 1)}

NewWalk(c, s, e, a) ==
    [c |-> c, sender |-> s, signal |-> e, args |-> a, i |-> 0,
     n |-> connections[c].size, freed |-> FALSE, old |-> <<>>]

Top == stack[Len(stack)]

\* ++iterator of the innermost walk.
Advance(stk) == [stk EXCEPT ![Len(stk)].i = @ + 1]

\* The walks over the channel c lose their buffer when its vector reallocates.
Invalidate(stk, c) ==
    [k \in 1..Len(stk) |->
        IF stk[k].c = c /\ ~stk[k].freed
        THEN [stk[k] EXCEPT !.freed = TRUE, !.old = connections[c].buf]
        ELSE stk[k]]

\* The pointer values the walk f can read at its position: the slot of the
\* vector's storage, or for a freed buffer the old value or null.
SlotValues(f) ==
    IF f.freed THEN {f.old[f.i + 1], 0} ELSE {connections[f.c].buf[f.i + 1]}

\* What the if-condition can see through the pointer raw: a live Connection
\* decides it; a deleted one shows its old fields, clobbered fields (no match)
\* or the fields of a Connection allocated later at the same address.
Targets(f, raw) ==
    IF raw = 0 THEN {[p |-> 0, hit |-> FALSE]}
    ELSE IF raw \in alive
    THEN {[p |-> raw, hit |-> MatchesEmit(f.sender, raw, heap[raw], f.signal)]}
    ELSE {[p |-> raw, hit |-> MatchesEmit(f.sender, raw, heap[raw], f.signal)],
          [p |-> raw, hit |-> FALSE]}
         \cup {[p |-> q, hit |-> MatchesEmit(f.sender, q, heap[q], f.signal)] :
                  q \in {x \in alive : x > raw /\ heap[x].ch = f.c}}

WalkReads(f) == UNION {Targets(f, raw) : raw \in SlotValues(f)}

\* The read at the position of the walk f touches freed memory.
ReadsFreed(f) ==
    f.freed \/ \E raw \in SlotValues(f) : raw # 0 /\ raw \notin alive

Walking == ~fault /\ stack # <<>> /\ Top.i < Top.n

\* fireAllSlots is entered: begin() and end() are taken.
EmitBegin(c, s, e, a) ==
    /\ ~fault
    /\ stack = <<>>
    /\ stack' = <<NewWalk(c, s, e, a)>>
    /\ log' = <<>>
    /\ last' = Call("emit", c, Tuple(s, 0, e, 0), a)
    /\ UNCHANGED <<heap, alive, connections, fault, calls, objects>>

\* The record at the position does not match (or the pointer is null).
WalkSkip ==
    /\ Walking
    /\ \E r \in WalkReads(Top) : ~r.hit
    /\ stack' = Advance(stack)
    /\ UNCHANGED <<heap, alive, connections, fault, log, last, calls, objects>>

\* The read of freed memory ends the run.
WalkFault ==
    /\ Walking
    /\ ReadsFreed(Top)
    /\ Crash(last)

\* The record matches, fireSlot calls the handler, which returns.
HandlerReturns ==
    /\ Walking
    /\ \E r \in WalkReads(Top) :
          /\ r.hit
          /\ log' = Append(log, fireSlot(r.p, heap[r.p], Top.args))
    /\ stack' = Advance(stack)
    /\ UNCHANGED <<heap, alive, connections, fault, last, calls, objects>>

\* The record matches, fireSlot calls the handler, which calls connect.
HandlerConnects(c, t) ==
    /\ Walking
    /\ \E r \in WalkReads(Top) :
          /\ r.hit
          /\ fireSlot(r.p, heap[r.p], Top.args).called
          /\ log' = Append(log, fireSlot(r.p, heap[r.p], Top.args))
    /\ connect(c, t)
    /\ stack' = IF Reallocates(connections[c])
                THEN Invalidate(Advance(stack), c) ELSE Advance(stack)
    /\ calls' = Append(calls, <<c, t>>)
    /\ last' = [last EXCEPT !.hops = @ \cup {"connect"}]
    /\ UNCHANGED <<fault, objects>>

\* The record matches, fireSlot calls the handler, which calls disconnect.
HandlerDisconnects(c, t) ==
    /\ Walking
    /\ \E r \in WalkReads(Top) :
          /\ r.hit
          /\ fireSlot(r.p, heap[r.p], Top.args).called
          /\ \E out \in disconnect(connections[c], alive, t, heap) :
                IF out.fault
                THEN Crash([last EXCEPT !.hops = @ \cup {"disconnect"}])
                ELSE /\ alive' = out.alive
                     /\ connections' = [connections EXCEPT ![c] = out.v]
                     /\ log' = Append(log, fireSlot(r.p, heap[r.p], Top.args))
                     /\ stack' = Advance(stack)
                     /\ last' = [last EXCEPT !.hops = @ \cup {"disconnect"}]
                     /\ UNCHANGED <<heap, fault, calls, objects>>

\* The walk has reached its end: fireAllSlots returns.
EmitReturn ==
    /\ ~fault
    /\ stack # <<>>
    /\ Top.i >= Top.n
    /\ stack' = SubSeq(stack, 1, Len(stack) - 1)
    /\ UNCHANGED <<heap, alive, connections, fault, log, last, calls, objects>>

NextR ==
    \/ \E c \in ChannelsR : \E t \in TuplesR : Connect(c, t)
    \/ \E c \in ChannelsR : \E t \in TuplesR : Disconnect(c, t)
    \/ \E c \in ChannelsR : EmitBegin(c, 1, 1, 7)
    \/ WalkSkip
    \/ WalkFault
    \/ HandlerReturns
    \/ \E c \in ChannelsR : \E t \in TuplesR : HandlerConnects(c, t)
    \/ \E c \in ChannelsR : \E t \in TuplesR : HandlerDisconnects(c, t)
    \/ EmitReturn

SpecR == Init /\ [][NextR]_vars

----------------------------------------------------------------------------
\* fireAllSlots with handlers that emit (signalObject.hpp 105-115,
\* connection.hpp 61-67).  fireSlot calls the handler on the caller's stack:
\* an emission made by the handler is a walk pushed on top of the walk that
\* called it, and that walk goes on (++iterator) when the handler has returned.

\* Depth of the call stack of nested emissions.
MaxDepth == 3

\* What the handler behind a method pointer does when it is called: the
\* handlers of the application are told apart by their slot identity.
Handler(slot) ==
    IF slot = 2 THEN "emits" ELSE IF slot = 3 THEN "re-emits" ELSE "returns"

\* The event a handler emits while it handles the event of the walk f: the
\* same event again, or signal 2 of sender 1.
Emitted(f, slot) ==
    IF Handler(slot) = "re-emits"
    THEN [sender |-> f.sender, signal |-> f.signal]
    ELSE [sender |-> 1, signal |-> 2]

\* The tuples of the runs with nested emissions: a handler that returns, one
\* that emits signal 2 and one that re-emits, all bound to signal 1; a handler
\* that returns bound to signal 2.
TuplesN == {BaseTuple, Tuple(1, 2, 1, 2), Tuple(1, 2, 1, 3), Tuple(1, 1, 2, 1)}

\* Mutant of fireSlotEmits: the emission of the handler is queued and
\* delivered after the walks in progress.
fireSlotQueues ==
    /\ Walking
    /\ Len(stack) < MaxDepth
    /\ \E r \in WalkReads(Top) :
          /\ r.hit
          /\ fireSlot(r.p, heap[r.p], Top.args).called
          /\ Handler(heap[r.p].slot) # "returns"
          /\ log' = Append(log, fireSlot(r.p, heap[r.p], Top.args))
          /\ stack' = <<NewWalk(Top.c, Emitted(Top, heap[r.p].slot).sender,
                                Emitted(Top, heap[r.p].slot).signal, Top.args + 1)>>
                      \o Advance(stack)
    /\ last' = [last EXCEPT !.hops = @ \cup {"emit"}]
    /\ UNCHANGED <<heap, alive, connections, fault, calls, objects>>

\* Mutant of fireSlotEmits: an event that is being delivered is not emitted
\* again (cycle detection).
fireSlotEmitsAcyclic ==
    /\ Walking
    /\ Len(stack) < MaxDepth
    /\ \E r \in WalkReads(Top) :
          /\ r.hit
          /\ fireSlot(r.p, heap[r.p], Top.args).called
          /\ Handler(heap[r.p].slot) # "returns"
          /\ log' = Append(log, fireSlot(r.p, heap[r.p], Top.args))
          /\ stack' =
                IF \E k \in 1..Len(stack) :
                      /\ stack[k].sender = Emitted(Top, heap[r.p].slot).sender
                      /\ stack[k].signal = Emitted(Top, heap[r.p].slot).signal
                THEN Advance(stack)
                ELSE Append(stack,
                            NewWalk(Top.c, Emitted(Top, heap[r.p].slot).sender,
                                    Emitted(Top, heap[r.p].slot).signal, Top.args + 1))
    /\ last' = [last EXCEPT !.hops = @ \cup {"emit"}]
    /\ UNCHANGED <<heap, alive, connections, fault, calls, objects>>

\* The record matches and fireSlot is called; the receiver or the slot is
\* null, or the handler is called and returns.
fireSlotReturns ==
    /\ Walking
    /\ \E r \in WalkReads(Top) :
          /\ r.hit
          /\ fireSlot(r.p, heap[r.p], Top.args).called
                => Handler(heap[r.p].slot) = "returns"
          /\ log' = Append(log, fireSlot(r.p, heap[r.p], Top.args))
    /\ stack' = Advance(stack)
    /\ UNCHANGED <<heap, alive, connections, fault, last, calls, objects>>

\* The record matches, fireSlot calls the handler, which calls fireAllSlots:
\* the walk of the caller is suspended inside fireSlot.
fireSlotEmits ==
    /\ Walking
    /\ Len(stack) < MaxDepth
    /\ \E r \in WalkReads(Top) :
          /\ r.hit
          /\ fireSlot(r.p, heap[r.p], Top.args).called
          /\ Handler(heap[r.p].slot) # "returns"
          /\ log' = Append(log, fireSlot(r.p, heap[r.p], Top.args))
          /\ stack' = Append(stack,
                             NewWalk(Top.c, Emitted(Top, heap[r.p].slot).sender,
                                     Emitted(Top, heap[r.p].slot).signal, Top.args + 1))
    /\ last' = [last EXCEPT !.hops = @ \cup {"emit"}]
    /\ UNCHANGED <<heap, alive, connections, fault, calls, objects>>

\* The innermost walk has reached its end: fireAllSlots returns, to the
\* application or to the handler that called it, which returns to the fireSlot
\* of the walk below, which goes on.
fireAllSlotsReturns ==
    /\ ~fault
    /\ stack # <<>>
    /\ Top.i >= Top.n
    /\ stack' = IF Len(stack) > 1
                THEN Advance(SubSeq(stack, 1, Len(stack) - 1))
                ELSE <<>>
    /\ UNCHANGED <<heap, alive, connections, fault, log, last, calls, objects>>

\* A step of an emission in progress.
WalkStep == WalkSkip \/ fireSlotReturns \/ fireSlotEmits \/ fireAllSlotsReturns

NextN ==
    \/ \E c \in ChannelsR : \E t \in TuplesN : Connect(c, t)
    \/ \E c \in ChannelsR : EmitBegin(c, 1, 1, 7)
    \/ WalkSkip
    \/ fireSlotReturns
    \/ fireSlotEmits
    \/ fireAllSlotsReturns

SpecN == Init /\ [][NextN]_vars

\* The thread that called fireAllSlots runs on: an emission in progress takes
\* its next step.
SpecNF == SpecN /\ WF_vars(WalkStep)

----------------------------------------------------------------------------
\* The teardown of an object (baseObject.hpp 22-34).  ~MetaObject() calls
\* destroyed(), which calls fireAllSlots(this, &BaseObject::destroyed); the
\* name BaseObject is read as the class itself.  An object is an instance of a
\* class derived from MetaObject, and C++ destroys it from the most derived
\* class down: when ~MetaObject() runs, the destructors of the derived classes
\* have run and the object's own members are destroyed ("released").  In
\* these runs the one channel is the one of the empty signature of destroyed().

\* The method pointer of the signal destroyed(void).
DestroyedSignal == 1

\* The tuples of the runs with teardown: destroyed() of object 1 bound to a
\* handler of object 2, destroyed() of object 2 bound to a handler of object
\* 1, and another signal of object 1 bound to a handler of object 2.
TuplesL == {Tuple(1, 2, DestroyedSignal, 1), Tuple(2, 1, DestroyedSignal, 1),
            Tuple(1, 2, 2, 1)}

\* No destructor is running.
NoTeardown == \A o \in Objects : objects[o] # "released"

\* void destroyed(void): the fireSlot calls of fireAllSlots(this, &destroyed).
destroyed(o) == fireAllSlots(connections[1], heap, o, DestroyedSignal, <<>>)

\* The fireSlot calls `fired` call a handler on an object that is not alive.
CallsDangling(fired) ==
    \E k \in 1..Len(fired) : fired[k].called /\ objects[fired[k].receiver] # "alive"

\* The destruction of the object o begins: the destructors of the classes
\* derived from MetaObject run and the members of o are destroyed.
DerivedDestructors(o) ==
    /\ ~fault
    /\ stack = <<>>
    /\ NoTeardown
    /\ objects[o] = "alive"
    /\ objects' = [objects EXCEPT ![o] = "released"]
    /\ log' = <<>>
    /\ last' = Call("destroy", 1, Tuple(o, 0, DestroyedSignal, 0), <<>>)
    /\ UNCHANGED <<heap, alive, connections, fault, stack, calls>>

\* ~MetaObject(): destroyed() is called, then the object is gone.  A handler
\* called on an object that is not alive is undefined behaviour: it runs on
\* the dead object or the run ends.
MetaObjectDestructor(o) ==
    /\ ~fault
    /\ stack = <<>>
    /\ objects[o] = "released"
    /\ \/ /\ log' = destroyed(o)
          /\ objects' = [objects EXCEPT ![o] = "destroyed"]
          /\ UNCHANGED <<heap, alive, connections, fault, last, stack, calls>>
       \/ /\ CallsDangling(destroyed(o))
          /\ Crash(last)

NextL ==
    \/ \E t \in TuplesL : NoTeardown /\ Connect(1, t)
    \/ \E t \in TuplesL : NoTeardown /\ Disconnect(1, t)
    \/ \E o \in Objects : DerivedDestructors(o)
    \/ \E o \in Objects : MetaObjectDestructor(o)

SpecL == Init /\ [][NextL]_vars

----------------------------------------------------------------------------
\* Vocabulary of the claims

\* The number of positions of the sequence q whose entry satisfies P.
Count(q, P(_)) == Cardinality({k \in 1..Len(q) : P(q[k])})

\* The application's last call has returned (the run did not end in it).
Returned(op) == last.op = op /\ ~fault /\ stack = <<>>

\* The pointer p is a Connection of the channel c with the identities t.
IsRecord(p, c, t) == heap[p] = NewConnection(c, t)

\* The active records of the channel c: the elements of its vector.
Active(c) == Elements(connections[c])

\* The number of connect(c, t) calls made so far.
Connected(c, t) == Cardinality({k \in 1..Len(calls) : calls[k] = <<c, t>>})

\* The calls of handler h on receiver r in the log.
CallsOf(r, h) == SelectSeq(log, LAMBDA x : x.called /\ x.receiver = r /\ x.slot = h)

\* The allocation numbers in the log, in the order of the fireSlot calls.
Fired == [k \in 1..Len(log) |-> log[k].id]

\* The records of the sequence q that an emission (sender, signal) matches.
Matching(q, sender, signal) ==
    SelectSeq(q, LAMBDA p : heap[p].sender = sender /\ heap[p].signal = signal)

\* The records of the sequence q that differ from t in at least one identity.
Others(q, t) == SelectSeq(q, LAMBDA p : TupleOf(heap[p]) # t)

----------------------------------------------------------------------------
\* C1: when disconnect(s, r, e, h) has returned, no active record of the
\* channel has the four identities (s, r, e, h), and an emission of (s, e) on
\* the channel calls handler h of receiver r zero times.
C1_DisconnectRemovesAll ==
    Returned("disconnect") =>
        /\ \A k \in 1..Len(Active(last.c)) : TupleOf(heap[Active(last.c)[k]]) # last.t
        /\ \A a \in ArgsOf(last.c) :
              Count(fireAllSlots(connections[last.c], heap, last.t.sender,
                                 last.t.signal, a),
                    LAMBDA x : x.receiver = last.t.receiver /\ x.slot = last.t.slot) = 0

\* C2: when an emission (s, e, args) has returned, every tuple (s, r, e, h)
\* that was connected exactly once on the channel and not disconnected has had
\* handler h of receiver r called exactly once, with args.  A Connection is
\* deleted only by a disconnect called with its four identities, so the one
\* record of a tuple that was never disconnected is still allocated.
C2_ConnectedOnceCalledOnce ==
    Returned("emit") =>
        \A p \in alive :
            (/\ heap[p].ch = last.c
             /\ Connected(last.c, TupleOf(heap[p])) = 1
             /\ heap[p].sender = last.t.sender
             /\ heap[p].signal = last.t.signal)
            => /\ Len(CallsOf(heap[p].receiver, heap[p].slot)) = 1
               /\ CallsOf(heap[p].receiver, heap[p].slot)[1].args = last.args

\* No record of the channel c has been removed: no disconnect has taken
\* effect on it since its first connect.
NoDisconnect(c) == \A p \in 1..Len(heap) : heap[p].ch = c => p \in alive

\* C3: after N >= 1 connects of the same tuple on a channel with no
\* disconnect in between, the channel holds N active records of the tuple,
\* and an emission that matches it calls the handler exactly N times.
C3_NConnectsNCalls ==
    \A c \in Channels : \A t \in TuplesOf(c) :
        (~fault /\ NoDisconnect(c) /\ Connected(c, t) >= 1) =>
            /\ Count(Active(c), LAMBDA p : IsRecord(p, c, t)) = Connected(c, t)
            /\ (Returned("emit") /\ last.c = c /\ last.t.sender = t.sender
                                 /\ last.t.signal = t.signal)
               => /\ Len(CallsOf(t.receiver, t.slot)) = Connected(c, t)
                  /\ \A k \in 1..Len(log) : log[k].args = last.args

C3_Witness ==
    /\ Returned("emit")
    /\ last.c = 1
    /\ Connected(1, BaseTuple) = 3
    /\ Len(CallsOf(1, 1)) = 3

\* C4: when disconnect(s, r, e, h) has returned, the records of the channel
\* that differ from (s, r, e, h) in at least one identity are the ones the
\* channel held before the call, in the same order, and are still allocated.
C4_DisconnectKeepsOthers ==
    Returned("disconnect") =>
        /\ Others(Active(last.c), last.t) = Others(last.pre, last.t)
        /\ \A k \in 1..Len(last.pre) :
              TupleOf(heap[last.pre[k]]) # last.t => last.pre[k] \in alive

\* The step is a disconnect call that finds no active record with its four
\* identities.
DisconnectOfNothing ==
    /\ last'.op = "disconnect"
    /\ \A k \in 1..Len(Active(last'.c)) : TupleOf(heap[Active(last'.c)[k]]) # last'.t

\* C5: a disconnect that matches no active record of its channel changes no
\* channel and no Connection, and does not end the run.
C5_DisconnectOfNothingIsNoOp ==
    [][DisconnectOfNothing =>
          /\ connections' = connections
          /\ heap' = heap
          /\ alive' = alive
          /\ ~fault']_vars

C5_Witness ==
    /\ Returned("disconnect")
    /\ Len(last.pre) = 2
    /\ \A k \in 1..Len(last.pre) : TupleOf(heap[last.pre[k]]) # last.t
    /\ Active(last.c) = last.pre

\* C6: an emission (s, e, args) calls fireSlot on exactly the active records
\* of its channel whose sender is s and whose signal is e, each once,
\* whatever their receiver and slot.
C6_EmitReachesExactlyTheMatching ==
    Returned("emit") =>
        /\ \A k \in 1..Len(last.pre) :
              Count(log, LAMBDA x : x.id = last.pre[k]) =
                  IF /\ heap[last.pre[k]].sender = last.t.sender
                     /\ heap[last.pre[k]].signal = last.t.signal
                  THEN 1 ELSE 0
        /\ \A k \in 1..Len(log) :
              /\ \E j \in 1..Len(last.pre) : last.pre[j] = log[k].id
              /\ log[k].called
              /\ log[k].receiver = heap[log[k].id].receiver
              /\ log[k].slot = heap[log[k].id].slot

\* One emission has reached two different receivers, and the channel holds
\* a record of another sender or another signal that it has not reached.
C6_Witness ==
    /\ Returned("emit")
    /\ \E i, j \in 1..Len(log) : log[i].receiver # log[j].receiver
    /\ Len(last.pre) > Len(log)

\* C7: an emission calls the records it matches in the order of their
\* connect calls (allocation numbers grow with every connect).
C7_RegistrationOrder ==
    Returned("emit") =>
        \A i, j \in 1..Len(log) : i < j => log[i].id < log[j].id

\* The emission comes after a disconnect that removed a record between two
\* others, and has called both of them.
C7_Witness ==
    /\ Returned("emit")
    /\ Len(log) = 2
    /\ log[2].id = log[1].id + 2
    /\ log[1].id + 1 \notin alive

\* C8: a call on one channel that returns leaves the vector of every other
\* channel and the Connections of every other channel as they were, and an
\* emission calls records of its own channel only.
C8_ChannelsIsolated ==
    [][~fault' =>
          /\ \A c \in Channels \ {last'.c} :
                /\ connections'[c] = connections[c]
                /\ \A p \in 1..Len(heap) :
                      heap[p].ch = c => (heap'[p] = heap[p] /\ (p \in alive' <=> p \in alive))
          /\ \A k \in 1..Len(log') : heap[log'[k].id].ch = last'.c]_vars

\* Both channels hold a record with the same four identities; an emission on
\* channel 2 of those identities has called one record, the one of channel 2.
C8_Witness ==
    /\ Returned("emit")
    /\ last.c = 2
    /\ Len(log) = 1
    /\ \E p \in alive : IsRecord(p, 1, BaseTuple) /\ Active(1) = <<p>>
    /\ last.t.sender = BaseTuple.sender

\* An emission has ended, by returning or by the end of the run, and the
\* handlers it called have made calls of exactly the kinds in hops.
EmitEnded(hops) == last.op = "emit" /\ stack = <<>> /\ last.hops = hops

\* C9: an emission whose handlers called connect on its channel (and nothing
\* else) returns, has called no record connected during it, and has called
\* every matching record the channel held when it began exactly once, in order.
C9_ConnectDuringEmit ==
    EmitEnded({"connect"}) =>
        /\ ~fault
        /\ \A k \in 1..Len(log) : log[k].id <= last.born
        /\ Fired = Matching(last.pre, last.t.sender, last.t.signal)

\* C10: an emission whose handlers called disconnect on its channel (and
\* nothing else), once it has returned, has called every matching record the
\* channel held when it began exactly once, in order: none skipped, none twice.
C10_DisconnectDuringEmit ==
    (EmitEnded({"disconnect"}) /\ ~fault) =>
        Fired = Matching(last.pre, last.t.sender, last.t.signal)

\* The calls a synchronous emission (sender, signal, args) makes over the
\* records q, depth first: every matching record in turn, each followed by
\* all the calls of the emission its handler makes, at most d levels deep.
RECURSIVE Dispatch(_, _, _, _, _)
Dispatch(q, sender, signal, args, d) ==
    IF q = <<>> \/ d = 0 THEN <<>>
    ELSE LET p == Head(q)
             f == [sender |-> sender, signal |-> signal]
             own == fireSlot(p, heap[p], args)
             nested ==
                 IF own.called /\ Handler(heap[p].slot) # "returns"
                 THEN Dispatch(Active(heap[p].ch), Emitted(f, heap[p].slot).sender,
                               Emitted(f, heap[p].slot).signal, args + 1, d - 1)
                 ELSE <<>>
         IN  (IF MatchesEmit(sender, p, heap[p], signal) THEN <<own>> \o nested ELSE <<>>)
             \o Dispatch(Tail(q), sender, signal, args, d)

\* The sequence a is a prefix of the sequence b.
IsPrefix(a, b) == Len(a) <= Len(b) /\ a = SubSeq(b, 1, Len(a))

\* C11: emission is synchronous.  While an emission is in progress the calls
\* made so far are a prefix of the depth-first order (all calls of a nested
\* emission come before the next call of the emission that contains it), and
\* when the emission has returned every record it matched, and every record
\* the nested emissions matched, has been called: nothing is left queued.
C11_EmitIsSynchronous ==
    (last.op = "emit" /\ ~fault) =>
        /\ IsPrefix(log, Dispatch(last.pre, last.t.sender, last.t.signal,
                                  last.args, MaxDepth))
        /\ stack = <<>> =>
              log = Dispatch(last.pre, last.t.sender, last.t.signal,
                             last.args, MaxDepth)

\* An emission has returned whose first record's handler emitted signal 2:
\* the handler of signal 2 was called before the second record of signal 1.
C11_Witness ==
    /\ Returned("emit")
    /\ "emit" \in last.hops
    /\ Len(log) = 3
    /\ log[1].args = 7 /\ log[2].args = 8 /\ log[3].args = 7
    /\ heap[log[2].id].signal = 2

\* The record p names the object o as its sender or as its receiver.
Names(p, o) == heap[p].sender = o \/ heap[p].receiver = o

\* The step is a disconnect call with exactly the four identities of the
\* record p, on its channel.
DisconnectsExactly(p) ==
    /\ last'.op = "disconnect"
    /\ last'.c = heap[p].ch
    /\ last'.t = TupleOf(heap[p])

\* C12: no step of a run that goes on (the teardown of an object included)
\* removes a record that names an object being destroyed or destroyed, except
\* a disconnect call with exactly the four identities of the record: the
\* record stays in its channel, at one position, and stays allocated.
C12_NoRemovalOnDestruction ==
    [][\A p \in alive :
          (/\ ~fault'
           /\ \E o \in Objects : objects'[o] # "alive" /\ Names(p, o)
           /\ Count(Active(heap[p].ch), LAMBDA x : x = p) = 1
           /\ ~DisconnectsExactly(p))
          => /\ p \in alive'
             /\ Cardinality({k \in 1..connections'[heap[p].ch].size :
                                connections'[heap[p].ch].buf[k] = p}) = 1]_vars

\* The teardown of an object by itself removes no record and deletes no
\* Connection.
TeardownRemovesNothing ==
    [][last'.op = "destroy" =>
          (fault' \/ (connections' = connections /\ alive' = alive /\ heap' = heap))]_vars

\* C13: the teardown of an object emits destroyed() once, while the object is
\* still alive: the handlers are called in a step that begins with the object
\* alive, and when the teardown has ended every tuple connected exactly once
\* to the object's destroyed() and still in the channel has been called once.
C13_DestroyedWhileAlive ==
    [][(last'.op = "destroy" /\ ~fault') =>
          /\ log' # <<>> => objects[last'.t.sender] = "alive"
          /\ objects'[last'.t.sender] = "destroyed" =>
                \A p \in alive' :
                    (/\ heap[p].sender = last'.t.sender
                     /\ heap[p].signal = DestroyedSignal
                     /\ Connected(1, TupleOf(heap[p])) = 1)
                    => Count(log', LAMBDA x : x.id = p) = 1]_vars

\* C14: when a disconnect call has returned, every record the channel held
\* when the call began has been examined (read by the loop) exactly once,
\* whatever was removed on the way: none skipped, none examined twice.
C14_ScanExaminesEachOnce ==
    Returned("disconnect") =>
        \A k \in 1..Len(last.pre) : Count(log, LAMBDA x : x.id = last.pre[k]) = 1

\* C18: when a disconnect call has returned, the channel holds allocated
\* records only; of the records the channel held before, exactly the
\* deallocated ones have left it and they all have the four identities of the
\* call; and every read of the loop was at a position below the size the
\* vector had at that moment.
C18_DisconnectMemorySafe ==
    Returned("disconnect") =>
        /\ \A k \in 1..Len(Active(last.c)) : Active(last.c)[k] \in alive
        /\ \A k \in 1..Len(last.pre) :
              /\ last.pre[k] \in alive
                    <=> Count(Active(last.c), LAMBDA p : p = last.pre[k]) = 1
              /\ last.pre[k] \notin alive => TupleOf(heap[last.pre[k]]) = last.t
        /\ \A k \in 1..Len(log) : log[k].pos < log[k].size

\* C15: a record that a disconnect has deallocated is Removed for good: in
\* every later step of a run that goes on it stays deallocated, no channel
\* holds it, and no emission calls it.
C15_RemovedIsTerminal ==
    [][~fault' =>
          \A p \in (1..Len(heap)) \ alive :
              /\ p \notin alive'
              /\ \A c \in Channels : \A k \in 1..connections'[c].size :
                    connections'[c].buf[k] # p
              /\ last'.op = "emit" => \A k \in 1..Len(log') : log'[k].id # p]_vars

\* A record was removed, the same tuple was connected again (a new record),
\* and an emission has called the new record.
C15_Witness ==
    /\ Returned("emit")
    /\ \E p \in (1..Len(heap)) \ alive : \E q \in alive :
          /\ q > p
          /\ heap[q] = heap[p]
          /\ Fired = <<q>>

\* C16: an emission calls fireSlot on every record that matches its sender
\* and signal, whatever the receiver and slot of the record; fireSlot calls
\* the handler exactly when the record's receiver and slot are both non-null;
\* and the emission returns with the channel as it was.
C16_NullReceiverOrSlotIsSkipped ==
    Returned("emit") =>
        /\ last.t.sender # 0 =>
              Fired = Matching(last.pre, last.t.sender, last.t.signal)
        /\ \A k \in 1..Len(log) :
              log[k].called <=> (/\ heap[log[k].id].receiver # 0
                                 /\ heap[log[k].id].slot # 0)
        /\ Active(last.c) = last.pre

\* One emission has matched a record with a null receiver, a record with a
\* null slot and a record with neither, and has called one handler.
C16_Witness ==
    /\ Returned("emit")
    /\ Len(log) = 3
    /\ \E k \in 1..3 : log[k].receiver = 0
    /\ \E k \in 1..3 : log[k].slot = 0
    /\ Count(log, LAMBDA x : x.called) = 1

\* C19: an emission whose handlers call neither connect nor disconnect leaves
\* the vector of every channel and every Connection as they were.
C19_EmitChangesNothing ==
    [][last'.op = "emit" =>
          /\ connections' = connections
          /\ heap' = heap
          /\ alive' = alive
          /\ ~fault']_vars

\* An emission has returned that called a record, with both channels holding
\* records.
C19_Witness ==
    /\ Returned("emit")
    /\ Len(log) >= 1
    /\ \A c \in Channels : Len(Active(c)) >= 1

\* C20: an emission with a null sender calls fireSlot on no record.
C20_NullSenderCallsNothing ==
    (Returned("emit") /\ last.t.sender = 0) => log = <<>>

\* The emission with a null sender has returned, on a channel that holds a
\* record connected with a null sender and the emitted signal.
C20_Witness ==
    /\ Returned("emit")
    /\ last.t.sender = 0
    /\ log = <<>>
    /\ \E k \in 1..Len(Active(last.c)) :
          /\ heap[Active(last.c)[k]].sender = 0
          /\ heap[Active(last.c)[k]].signal = last.t.signal

\* The handler of the record p is called and emits again the event the
\* record is bound to.
Reemits(p) ==
    /\ fireSlot(p, heap[p], 0).called
    /\ Handler(heap[p].slot) # "returns"
    /\ Emitted(heap[p], heap[p].slot).sender = heap[p].sender
    /\ Emitted(heap[p], heap[p].slot).signal = heap[p].signal

\* No walk in progress has gone past a record it matches whose handler
\* re-emits the event of the walk.
NoWalkPassesReemitter ==
    \A k \in 1..Len(stack) : \A j \in 0..(stack[k].n - 1) :
        LET p == connections[stack[k].c].buf[j + 1]
        IN  (MatchesEmit(stack[k].sender, p, heap[p], stack[k].signal) /\ Reemits(p))
                => stack[k].i <= j

\* The handlers of all the records the emission in progress matches only
\* return.
PassiveEmission ==
    /\ last.op = "emit"
    /\ ~fault
    /\ stack # <<>>
    /\ \A k \in 1..Len(last.pre) :
          MatchesEmit(last.t.sender, last.pre[k], heap[last.pre[k]], last.t.signal)
              => (fireSlot(last.pre[k], heap[last.pre[k]], 0).called
                     => Handler(heap[last.pre[k]].slot) = "returns")

\* C17: nothing cuts a recursion off: no walk gets past a record whose
\* handler re-emits the walk's event, so an emission that has returned has
\* called no such handler; and an emission whose handlers only return does
\* return, having called each record at most once.
C17_NoCycleDetection ==
    /\ [](~fault =>
            /\ NoWalkPassesReemitter
            /\ Returned("emit") =>
                  /\ \A k \in 1..Len(log) : ~Reemits(log[k].id)
                  /\ last.hops = {} =>
                        \A k \in 1..Len(last.pre) :
                            Count(log, LAMBDA x : x.id = last.pre[k]) <= 1)
    /\ PassiveEmission ~> Returned("emit")

\* The recursion is MaxDepth walks deep: every walk is of the same event and
\* every call so far is a call of the handler that re-emits it.
C17_Witness ==
    /\ ~fault
    /\ Len(stack) = MaxDepth
    /\ \A k \in 1..Len(stack) : stack[k].sender = 1 /\ stack[k].signal = 1
    /\ Len(log) = MaxDepth - 1
    /\ \A k \in 1..Len(log) : Reemits(log[k].id)

====
